---- MODULE Spec2Model ----
(***************************************************************************)
(* Feed synchronisation core of the policy engine                          *)
(* (anchore_engine/services/policy_engine/engine/feeds/feeds.py).          *)
(*                                                                         *)
(* One worker runs one sync call of one feed instance.  The database is    *)
(* modelled as the committed state `db` and the view of the thread-scoped  *)
(* session `sess` (committed state plus the uncommitted changes):          *)
(* commit copies sess to db, rollback copies db to sess.                   *)
(***************************************************************************)
EXTENDS Integers, Sequences, FiniteSets, TLC

\* ------------------------------------------------------------------ bounds
\* Longest download manifest (download_result.results).
MaxManifest == 2
\* Most records the repo yields for one (feed, group).
MaxRecords == 3
\* Largest instant (started, utcnow); 0 stands for a null timestamp.
MaxStarted == 2
\* AnchoreServiceFeed.RECORDS_PER_CHUNK is 500 in the source (feeds.py:107).
\* The model runs the chunk rule with a scaled value so that a chunk
\* boundary, and records after it, fall inside MaxRecords.
RECORDS_PER_CHUNK == 2

\* ------------------------------------------------------------- data model
VulnFeedName == "vulnerabilities"
PackagesFeedName == "packages"

\* A manifest entry of another feed, dropped by the filter of sync.
ForeignEntry == [feed |-> "nvdv2", group |-> "nvdv2:cves", started |-> 1]

\* A group name that no metadata record carries.
UnknownGroup == "debian:99"

\* The groups a feed's metadata may hold (FeedMetadata.groups); "pypi" is a
\* group of the packages feed that PackagesFeed declares no mapper for.
MetadataChoices(f) ==
  IF f = VulnFeedName
    THEN {{}, {"debian:10", "ubuntu:20.04"}}
    ELSE {{}, {"gem", "pypi"}}

\* FixedArtifact rows of a vulnerability (the fixed_in list).
FixOld == [name |-> "pkg", epochless_version |-> "1.0", version |-> "1.0-1",
           version_format |-> "dpkg"]
Ids == {"CVE-1", "CVE-2"}

\* Raw records the repo may yield: the key field and the fix list.
RawRecords ==
  {[Name |-> "CVE-1", FixedIn |-> {FixOld}], [Name |-> "CVE-2", FixedIn |-> {}]}

\* GroupDownloadResult entries a manifest of feed f may carry.
ManifestEntries(f, groups) ==
  [feed : {f}, group : groups, started : 1..MaxStarted]
    \cup {[feed |-> f, group |-> UnknownGroup, started |-> 1], ForeignEntry}

\* Manifests: the downloader reports each (feed, group) at most once.
Manifests(f, groups) ==
  {m \in UNION {[1..n -> ManifestEntries(f, groups)] : n \in 0..MaxManifest} :
     \A i, j \in DOMAIN m :
        (m[i].feed = m[j].feed /\ m[i].group = m[j].group) => i = j}

\* build_group_sync_result
build_group_sync_result ==
  [group |-> "None", status |-> "failure",
   updated_record_count |-> 0, updated_image_count |-> 0]

\* build_feed_sync_results
build_feed_sync_results ==
  [feed |-> "None", status |-> "failure", groups |-> <<>>]

\* Mapper.map: the persistable entity of a raw record of a group.
MapRecord(group, raw) ==
  [id |-> raw.Name, namespace_name |-> group, fixed_in |-> raw.FixedIn]

\* Variant of load_mapper: every feed has one mapper for all its groups.
load_mapper_single_type(f, group) == TRUE

\* AnchoreServiceFeed._load_mapper: TRUE iff a mapper is found for the group.
load_mapper(f, group) ==
  IF f = PackagesFeedName THEN group \in {"gem", "npm"} ELSE TRUE

\* vulnerability_processing_fn(db, merged): the image matches in the session
\* after the matches for the merged record were recomputed.
process_updated_vulnerability(imgs, matches, merged) ==
  {m \in matches :
     ~(m.vulnerability.id = merged.id
       /\ m.vulnerability.namespace_name = merged.namespace_name)}
    \cup [image_id : imgs, vulnerability : {merged}]

\* The image matches of a database in which every row was processed.
ImageMatches(imgs, rows) == [image_id : imgs, vulnerability : rows]

\* __flush_helper_fn__: flush_vulnerability_matches for the vulnerabilities
\* feed removes the image matches of the group; the packages feed has no
\* helper.
flush_helper_fn(f, matches, group) ==
  IF f = VulnFeedName
    THEN {m \in matches : m.vulnerability.namespace_name # group}
    ELSE matches

\* Variant of Merge: merging a row that is there unchanged removes it.
Merge_drops_unchanged(rows, e) ==
  IF e \in rows
    THEN rows \ {e}
    ELSE {r \in rows : ~(r.id = e.id /\ r.namespace_name = e.namespace_name)} \cup {e}

\* Session.merge: upsert by primary key (namespace_name, id).
Merge(rows, e) ==
  {r \in rows : ~(r.id = e.id /\ r.namespace_name = e.namespace_name)} \cup {e}

\* The row with the key of e; the empty set stands for None.
Lookup(rows, e) ==
  {r \in rows : r.id = e.id /\ r.namespace_name = e.namespace_name}

\* The rows of one group.
RowsOf(rows, group) == {r \in rows : r.namespace_name = group}

\* Variant of flush_group_vulnerabilities: the Vulnerability rows are kept.
flush_group_vulnerabilities_keeps_rows(rows, group) == rows

\* VulnerabilityFeed._flush_group: the rows left after the FixedArtifact and
\* Vulnerability rows of the namespace are deleted.
flush_group_vulnerabilities(rows, group) ==
  {r \in rows : r.namespace_name # group}

\* PackagesFeed._flush_group: all GemMetadata or NpmMetadata rows are deleted;
\* nothing is for another group name.
flush_group_packages(rows, group) ==
  IF group \in {"gem", "npm"}
    THEN {r \in rows : r.namespace_name # group}
    ELSE rows

\* Variant of flush_group: the vulnerabilities feed has no flush of its own
\* and its rows are not among those the inherited flush deletes.
flush_group_inherited(f, rows, group) ==
  IF f = VulnFeedName
    THEN rows
    ELSE flush_group_packages(rows, group)

\* self._flush_group(group_db_obj) of the feed instance.
flush_group(f, rows, group) ==
  IF f = VulnFeedName
    THEN flush_group_vulnerabilities(rows, group)
    ELSE flush_group_packages(rows, group)

\* {(fix.name, fix.epochless_version, fix.version) for fix in v.fixed_in}
normalized_fixes(v) ==
  {<<fix.name, fix.epochless_version, fix.version>> : fix \in v.fixed_in}

\* Variant of fix_diff: the fixes of a that b lacks.
fix_diff_one_sided(fa, fb) == fa \ fb

\* normalized_fixes_a.symmetric_difference(normalized_fixes_b)
fix_diff(fa, fb) == (fa \ fb) \cup (fb \ fa)

\* VulnerabilityFeed._are_match_equivalent on two non-null records.
are_match_equivalent(a, b) ==
  /\ a.id = b.id
  /\ a.namespace_name = b.namespace_name
  /\ fix_diff(normalized_fixes(a), normalized_fixes(b)) = {}

\* A call of VulnerabilityFeed._are_match_equivalent; an argument is a set of
\* at most one record, the empty set standing for None.  With a None
\* argument the first branch is taken and its log.debug line reads
\* vulnerability_a.id, which raises AttributeError.
are_match_equivalent_call(va, vb) ==
  IF va = {} \/ vb = {}
    THEN "AttributeError"
    ELSE IF \E a \in va : \E b \in vb : are_match_equivalent(a, b)
           THEN "True"
           ELSE "False"

\* Variant of needs_update: every record counts as a change.
needs_update_always(found, rec) == TRUE

\* update_vulnerability: needs_update from the looked-up row (a set of at
\* most one row) and the new record.
needs_update(found, rec) ==
  IF found # {}
    THEN \E x \in found : ~are_match_equivalent(x, rec)
    ELSE TRUE

\* ThreadLocalFeedGroupNameCache.add / flush.
CacheAdd(c, names) == c \cup names
CacheFlush(c) == {}

\* ------------------------------------------------------------ registry
\* The feed classes of the module with the __feed_name__ each declares.
FeedClasses ==
  { [cls |-> "VulnerabilityFeed", feed |-> "vulnerabilities"],
    [cls |-> "PackagesFeed", feed |-> "packages"],
    [cls |-> "NvdV2Feed", feed |-> "nvdv2"],
    [cls |-> "VulnDBFeed", feed |-> "vulndb"] }

\* Names get_feed_by_name is called with.
LookupNames ==
  {"vulnerabilities", "Vulnerabilities", "packages", "NVDV2", "vulndb",
   "github", "nosuchfeed"}

\* str.lower on the names above.
Lower(name) ==
  CASE name = "Vulnerabilities" -> "vulnerabilities"
    [] name = "NVDV2" -> "nvdv2"
    [] OTHER -> name

\* The registry is a dict: a sequence of entries in insertion order.
RegistryKeys(reg) == {reg[i].name : i \in DOMAIN reg}

\* cls.registry[feed] = cls
RegistrySet(reg, key, c) ==
  IF key \in RegistryKeys(reg)
    THEN [i \in DOMAIN reg |->
            IF reg[i].name = key THEN [name |-> key, cls |-> c] ELSE reg[i]]
    ELSE Append(reg, [name |-> key, cls |-> c])

\* cls.registry.get(key): the classes under the key (none or one).
RegistryGet(reg, key) == {reg[i].cls : i \in {j \in DOMAIN reg : reg[j].name = key}}

\* FeedMeta.get_feed_by_name: what the call returns or raises.
get_feed_by_name(reg, name) ==
  IF RegistryGet(reg, Lower(name)) # {}
    THEN [name |-> name, outcome |-> "returned",
          cls |-> CHOOSE c \in RegistryGet(reg, Lower(name)) : TRUE]
    ELSE IF Len(reg) > 0
           THEN [name |-> name, outcome |-> "returned", cls |-> reg[1].cls]
           ELSE [name |-> name, outcome |-> "KeyError", cls |-> "None"]

\* No call of get_feed_by_name was made yet.
NoLookup == [name |-> "", outcome |-> "none", cls |-> "None"]

\* The registry once the module is imported: the classes in source order.
ImportedRegistry ==
  << [name |-> "vulnerabilities", cls |-> "VulnerabilityFeed"],
     [name |-> "packages", cls |-> "PackagesFeed"],
     [name |-> "nvdv2", cls |-> "NvdV2Feed"],
     [name |-> "vulndb", cls |-> "VulnDBFeed"] >>

\* --------------------------------------------------------------- state
VARIABLES
  feed_name,            \* __feed_name__ of the feed instance
  full_flush,           \* argument of sync
  metadata_groups,      \* names of self.metadata.groups
  manifest,             \* fetched_data.metadata.download_result.results
  pc,                   \* position of the worker inside sync / _sync_group
  gi,                   \* index in manifest of the entry being iterated
  db0,                  \* the committed database state when sync was called
  db,                   \* committed database state
  sess,                 \* the session's view: db plus uncommitted changes
  read_count,           \* number of records local_repo.read has yielded
  record,               \* the loop variable record: the last record yielded
  emitted,              \* the entities of those records, the latest per key
  count,                \* local count of _sync_group
  total_updated_count,  \* local total_updated_count of _sync_group
  existing,             \* local existing of the last update_vulnerability
  fn_calls,             \* calls of vulnerability_processing_fn for the last record
  result,               \* local result of sync
  failed_count,         \* local failed_count of sync
  events,               \* events handed to notify_event, in order
  cache,                \* ThreadLocalFeedGroupNameCache of this worker
  registry,             \* DataFeed.registry
  lookup,               \* the outcome of the last get_feed_by_name call
  vulnerability_a,      \* first argument of a call of _are_match_equivalent
  vulnerability_b,      \* second argument of that call
  match_result,         \* what the call returned or raised; "none" before it
  event_client,         \* argument of sync: "client", or "None"
  notified,             \* how the last call of notify_event ended; "none" before it
  repo,                 \* fetched_data: the records it holds per group, or <<>>
                        \* when its contents are not fixed in advance
  previous_syncs,       \* the earlier calls of sync: failed_count and db at the call
  flush_self,           \* the feed class whose _flush_group is called on its own
  group_obj,            \* argument of that call: the FeedGroupMetadata record
  tables,               \* the rows of every feed data table, as the session sees them
  tables0,              \* the rows when _flush_group was called
  flushed,              \* whether that call has returned
  images,               \* the ids of the loaded images that every record affects
  worker_pc,            \* per worker thread: "idle", or "sync" inside VulnerabilityFeed.sync
  worker_metadata,      \* per worker: the group names of self.metadata in its last sync
  worker_previous,      \* per worker: the group names in the sync before that one
  worker_syncs,         \* per worker: the number of syncs it has entered
  worker_cache          \* ThreadLocalFeedGroupNameCache as each worker sees it

vars == <<feed_name, full_flush, metadata_groups, manifest, pc, gi, db0, db,
          sess, read_count, record, emitted, count, total_updated_count, existing,
          fn_calls, result, failed_count, events, cache, registry, lookup,
          vulnerability_a, vulnerability_b, match_result, event_client, notified,
          repo, previous_syncs, flush_self, group_obj, tables, tables0, flushed,
          images, worker_pc, worker_metadata, worker_previous, worker_syncs,
          worker_cache>>

\* The variables of a call of _are_match_equivalent.
match_vars == <<vulnerability_a, vulnerability_b, match_result>>

\* The worker threads that run syncs side by side.
worker_vars == <<worker_pc, worker_metadata, worker_previous, worker_syncs, worker_cache>>

\* The variables of a call of _flush_group on its own.
flush_vars == <<flush_self, group_obj, tables, tables0, flushed>>

inputs == <<feed_name, full_flush, metadata_groups, manifest, db0, registry, lookup,
            match_vars, event_client, repo, previous_syncs, flush_vars, images,
            worker_vars>>
group_locals == <<read_count, record, emitted, count, total_updated_count, existing, fn_calls>>

\* The manifest entry being processed.
Entry == manifest[gi]

\* No worker thread other than the one of this sync is looked at.
NoWorkers ==
  /\ worker_pc = <<>>
  /\ worker_metadata = <<>>
  /\ worker_previous = <<>>
  /\ worker_syncs = <<>>
  /\ worker_cache = <<>>

\* No call of _flush_group on its own is under way.
NoFlushCall ==
  /\ flush_self = "none"
  /\ group_obj = <<>>
  /\ tables = {}
  /\ tables0 = {}
  /\ flushed = FALSE

\* Database states before the sync: empty, or holding rows and a last_sync
\* from earlier syncs.
InitialDbs(groups) ==
  { [rows |-> {}, matches |-> {}, last_sync |-> [g \in groups |-> 0],
     last_update |-> 0, last_full_sync |-> 0],
    [rows |-> [id : Ids, namespace_name : groups, fixed_in : {{FixOld}}],
     matches |-> {},
     last_sync |-> [g \in groups |-> MaxStarted],
     last_update |-> 1, last_full_sync |-> 1] }

\* The state when sync is called, for the given choices of its event_client
\* and full_flush arguments, of the repo and of the loaded images.
InitSync(clients, flushes, repos, loaded) ==
  /\ feed_name \in {VulnFeedName, PackagesFeedName}
  /\ full_flush \in flushes
  /\ metadata_groups \in MetadataChoices(feed_name)
  /\ manifest \in Manifests(feed_name, metadata_groups)
  /\ pc = "start"
  /\ gi = 0
  /\ images \in loaded
  /\ db \in {[d EXCEPT !.matches = ImageMatches(images, d.rows)] :
               d \in InitialDbs(metadata_groups)}
  /\ db0 = db
  /\ sess = db
  /\ read_count = 0
  /\ record = <<>>
  /\ emitted = {}
  /\ count = 0
  /\ total_updated_count = 0
  /\ existing = {}
  /\ fn_calls = <<>>
  /\ result = build_feed_sync_results
  /\ failed_count = 0
  /\ events = <<>>
  /\ cache = {}
  /\ registry = ImportedRegistry
  /\ lookup = NoLookup
  /\ vulnerability_a = {}
  /\ vulnerability_b = {}
  /\ match_result = "none"
  /\ event_client \in clients
  /\ notified = "none"
  /\ repo \in repos
  /\ previous_syncs = <<>>
  /\ NoFlushCall
  /\ NoWorkers

\* The same with no image loaded.
InitWith(clients, flushes, repos) == InitSync(clients, flushes, repos, {{}})

\* A sync of the vulnerabilities feed, with a manifest of its own groups,
\* while an image is loaded that every record affects.
InitImages ==
  /\ InitSync({"None"}, BOOLEAN, {<<>>}, {{"image-1"}})
  /\ feed_name = VulnFeedName
  /\ \A i \in DOMAIN manifest : manifest[i].feed = feed_name

\* A sync called without an event client.
Init == InitWith({"None"}, BOOLEAN, {<<>>})

\* Event records handed to notify_event.
Event(type, e) == [type |-> type, feed |-> e.feed, group |-> e.group]

\* Variant of notify_event: the error of add_event is not caught.
notify_event_propagates(client, add_event_raises) ==
  IF client # "None"
    THEN IF add_event_raises THEN "raised" ELSE "delivered"
    ELSE "logged"

\* notify_event: how the call ends, given the client and whether its
\* add_event raises.  The error is caught and logged, the call returns.
notify_event(client, add_event_raises) ==
  IF client # "None"
    THEN IF add_event_raises THEN "swallowed" ELSE "delivered"
    ELSE "logged"

\* notify_event(ev, event_client) in sync: the event is handed over and
\* add_event, when there is a client, succeeds or raises.
notify(ev) ==
  /\ events' = Append(events, ev)
  /\ \E add_event_raises \in (IF event_client # "None" THEN BOOLEAN ELSE {FALSE}) :
        notified' = notify_event(event_client, add_event_raises)

\* FeedGroupSyncCompleted(feed, group, result=new_data)
CompletedEvent(e, new_data) ==
  [type |-> "FeedGroupSyncCompleted", feed |-> e.feed, group |-> e.group,
   result |-> new_data]

\* Variant of download_started: the instant the sync of the group began,
\* which is later than the download.
download_started_late(e) == e.started + 1

\* The value written to last_sync: started with the UTC zone attached.
\* Instants of the manifest are UTC wall-clock values, which replace() keeps.
download_started(e) == e.started

\* Variant of group_by_name: a group record is made up for any name.
group_by_name_any(groups, name) == TRUE

\* group_by_name: TRUE iff self.metadata holds a group of that name.
group_by_name(groups, name) == name \in groups

\* The group result _sync_group returns when the group is not in metadata.
GroupNotFoundResult(e) == [build_group_sync_result EXCEPT !.group = e.group]

\* Variant of GroupSuccessResult: the result reports the loaded images.
GroupSuccessResult_counts_images(e, total) ==
  [build_group_sync_result EXCEPT !.group = e.group,
                                  !.updated_record_count = total,
                                  !.status = "success",
                                  !.updated_image_count = Cardinality(images)]

\* The group result _sync_group returns after the last commit.
GroupSuccessResult(e, total) ==
  [build_group_sync_result EXCEPT !.group = e.group,
                                  !.updated_record_count = total,
                                  !.status = "success",
                                  !.updated_image_count = 0]

\* The cache on entry of VulnerabilityFeed.sync.
cache_on_entry(f, groups, c) ==
  IF f = VulnFeedName
    THEN IF groups # {} THEN CacheAdd(c, groups) ELSE CacheFlush(c)
    ELSE c

\* Variant of cache_on_exit: the cache is flushed on the normal return only.
cache_on_exit_no_finally(f, c, raised) ==
  IF f = VulnFeedName /\ ~raised THEN CacheFlush(c) ELSE c

\* Variant of cache_on_exit: sync has no finally clause.
cache_on_exit_keeps(f, c, raised) == c

\* The cache when sync is left (the finally clause of VulnerabilityFeed.sync);
\* raised tells whether sync is left by an exception.
cache_on_exit(f, c, raised) ==
  IF f = VulnFeedName THEN CacheFlush(c) ELSE c

\* The status sync puts in its result from failed_count.
feed_status(failed) == IF failed = 0 THEN "success" ELSE "failure"

\* Variant of after_merge: the commit is due once the chunk size is exceeded.
after_merge_late(cnt) == IF cnt > RECORDS_PER_CHUNK THEN "sg_commit" ELSE "sg_read"

\* The position after a record was merged: the chunk commit when due.
after_merge(cnt) == IF cnt >= RECORDS_PER_CHUNK THEN "sg_commit" ELSE "sg_read"

\* The locals of _sync_group as they are when it is entered, and after it
\* is left.
sync_group_locals_init ==
  /\ read_count' = 0
  /\ record' = <<>>
  /\ emitted' = {}
  /\ count' = 0
  /\ total_updated_count' = 0
  /\ existing' = {}
  /\ fn_calls' = <<>>

\* local_repo.read: the records that may come next for a group of which n
\* were read, and whether the iteration may end there.
RepoRecords(g, n) ==
  IF g \in DOMAIN repo
    THEN IF n < Len(repo[g]) THEN {repo[g][n + 1]} ELSE {}
    ELSE IF n < MaxRecords THEN RawRecords ELSE {}
RepoExhausted(g, n) == g \in DOMAIN repo => n = Len(repo[g])

\* -------------------------------------------------------------- actions
\* Variant of sync_except_clause: the failure of a group ends the loop.
sync_except_clause_aborts ==
  /\ failed_count' = failed_count + 1
  /\ notify(Event("FeedGroupSyncFailed", Entry))
  /\ gi' = Len(manifest)
  /\ pc' = "loop"

\* Variant of sync_except_clause: the failure is counted and not announced.
sync_except_clause_silent ==
  /\ failed_count' = failed_count + 1
  /\ UNCHANGED <<events, notified>>
  /\ gi' = gi
  /\ pc' = "loop"

\* The except clause of the loop of sync, entered when _sync_group raises:
\* count the failure, announce it, go on with the next entry.
sync_except_clause ==
  /\ failed_count' = failed_count + 1
  /\ notify(Event("FeedGroupSyncFailed", Entry))
  /\ gi' = gi
  /\ pc' = "loop"

\* VulnerabilityFeed.sync entry and the first lines of AnchoreServiceFeed.sync.
sync_enter ==
  /\ pc = "start"
  /\ cache' = cache_on_entry(feed_name, metadata_groups, cache)
  /\ result' = [build_feed_sync_results EXCEPT !.feed = feed_name]
  /\ failed_count' = 0
  /\ pc' = "loop"
  /\ UNCHANGED <<inputs, gi, db, sess, group_locals, events, notified>>

\* The for loop of sync takes the next manifest entry; an entry of another
\* feed is filtered out, an entry of this feed is announced and _sync_group
\* is called.
sync_next_group ==
  /\ pc = "loop"
  /\ gi < Len(manifest)
  /\ gi' = gi + 1
  /\ IF manifest[gi + 1].feed = feed_name
       THEN /\ notify(Event("FeedGroupSyncStarted", manifest[gi + 1]))
            /\ pc' = "sg_enter"
       ELSE /\ UNCHANGED <<events, notified, pc>>
  /\ UNCHANGED <<inputs, db, sess, group_locals, result, failed_count, cache>>

\* _sync_group up to the try block: refresh the metadata and find the group.
sync_group_enter ==
  /\ pc = "sg_enter"
  /\ \/ \* db.refresh raises, outside the try block: no rollback
        /\ sync_except_clause
        /\ UNCHANGED result
     \/ \* the group is not in the metadata: a failure result is returned
        /\ ~group_by_name(metadata_groups, Entry.group)
        /\ result' = [result EXCEPT !.groups = Append(@, GroupNotFoundResult(Entry))]
        /\ notify(CompletedEvent(Entry, GroupNotFoundResult(Entry)))
        /\ pc' = "loop"
        /\ UNCHANGED <<gi, failed_count>>
     \/ /\ group_by_name(metadata_groups, Entry.group)
        /\ pc' = IF full_flush THEN "sg_flush" ELSE "sg_mapper"
        /\ UNCHANGED <<gi, result, events, notified, failed_count>>
  /\ UNCHANGED <<inputs, db, sess, group_locals, cache>>

\* Variant of sync_group_flush: the flush commits its deletions.
sync_group_flush_commits ==
  /\ pc = "sg_flush"
  /\ sess' = [sess EXCEPT
               !.matches = flush_helper_fn(feed_name, @, Entry.group),
               !.rows = flush_group(feed_name, @, Entry.group)]
  /\ db' = sess'
  /\ pc' = "sg_mapper"
  /\ UNCHANGED <<inputs, gi, group_locals, result, failed_count, events, notified, cache>>

\* if full_flush: self._flush_group(group_db_obj)
sync_group_flush ==
  /\ pc = "sg_flush"
  /\ \/ /\ sess' = [sess EXCEPT
                     !.matches = flush_helper_fn(feed_name, @, Entry.group),
                     !.rows = flush_group(feed_name, @, Entry.group)]
        /\ pc' = "sg_mapper"
     \/ \* the flush helper or a delete raises
        /\ pc' = "sg_except"
        /\ UNCHANGED sess
  /\ UNCHANGED <<inputs, gi, db, group_locals, result, failed_count, events, notified, cache>>

\* mapper = self._load_mapper(group_db_obj)
sync_group_load_mapper ==
  /\ pc = "sg_mapper"
  /\ pc' = IF load_mapper(feed_name, Entry.group) THEN "sg_read" ELSE "sg_except"
  /\ UNCHANGED <<inputs, gi, db, sess, group_locals, result, failed_count, events, notified, cache>>

\* One iteration of the record loop: read, map, (update_vulnerability,) merge.
sync_group_record ==
  /\ pc = "sg_read"
  /\ \E raw \in RepoRecords(Entry.group, read_count) :
       LET mapped == MapRecord(Entry.group, raw) IN
       /\ read_count' = read_count + 1
       /\ record' = <<raw>>
       /\ emitted' = Merge(emitted, mapped)
       /\ \/ \* mapper.map raises
             /\ pc' = "sg_except"
             /\ existing' = {}
             /\ fn_calls' = <<>>
             /\ UNCHANGED <<sess, count, total_updated_count>>
          \/ \* AnchoreServiceFeed._sync_group: merge and count
             /\ feed_name # VulnFeedName
             /\ sess' = [sess EXCEPT !.rows = Merge(@, mapped)]
             /\ total_updated_count' = total_updated_count + 1
             /\ count' = count + 1
             /\ pc' = after_merge(count + 1)
             /\ UNCHANGED <<existing, fn_calls>>
          \/ \* VulnerabilityFeed._sync_group: update_vulnerability, then merge.
             \* The lookup returns the row of the session's view, or raises and
             \* leaves existing = None.
             /\ feed_name = VulnFeedName
             /\ \E found \in {Lookup(sess.rows, mapped), {}} :
                  /\ existing' = found
                  /\ IF needs_update(found, mapped)
                       THEN /\ fn_calls' = <<mapped>>
                            /\ \/ /\ sess' = [sess EXCEPT
                                               !.rows = Merge(@, mapped),
                                               !.matches = process_updated_vulnerability(
                                                             images, @, mapped)]
                                  /\ total_updated_count' = total_updated_count + 1
                                  /\ count' = count + 1
                                  /\ pc' = after_merge(count + 1)
                               \/ \* vulnerability_processing_fn (or a merge) raises,
                                  \* before or after it wrote its matches
                                  /\ \E written \in {sess.matches,
                                                     process_updated_vulnerability(
                                                       images, sess.matches, mapped)} :
                                        sess' = [sess EXCEPT !.rows = Merge(@, mapped),
                                                             !.matches = written]
                                  /\ pc' = "sg_except"
                                  /\ UNCHANGED <<count, total_updated_count>>
                       ELSE /\ fn_calls' = <<>>
                            /\ sess' = [sess EXCEPT !.rows = Merge(@, mapped)]
                            /\ total_updated_count' = total_updated_count + 1
                            /\ count' = count + 1
                            /\ pc' = after_merge(count + 1)
  /\ UNCHANGED <<inputs, gi, db, result, failed_count, events, notified, cache>>

\* local_repo.read raises while the next record is fetched.
sync_group_read_fails ==
  /\ pc = "sg_read"
  /\ pc' = "sg_except"
  /\ UNCHANGED <<inputs, gi, db, sess, group_locals, result, failed_count, events, notified, cache>>

\* if count >= RECORDS_PER_CHUNK: db.commit(); count = 0
sync_group_chunk_commit ==
  /\ pc = "sg_commit"
  /\ \/ /\ db' = sess
        /\ count' = 0
        /\ pc' = "sg_read"
     \/ \* the commit raises
        /\ pc' = "sg_except"
        /\ UNCHANGED <<db, count>>
  /\ UNCHANGED <<inputs, gi, sess, read_count, record, emitted, total_updated_count,
                 existing, fn_calls, result, failed_count, events, notified, cache>>

\* Variant of sync_group_residual_commit: the else clause does not commit.
sync_group_residual_commit_skipped ==
  /\ pc = "sg_read"
  /\ RepoExhausted(Entry.group, read_count)
  /\ pc' = "sg_last_sync"
  /\ UNCHANGED <<inputs, gi, db, sess, group_locals, result, failed_count, events, notified, cache>>

\* The repo is exhausted: the else clause of the for loop commits the rest.
sync_group_residual_commit ==
  /\ pc = "sg_read"
  /\ RepoExhausted(Entry.group, read_count)
  /\ \/ /\ db' = sess
        /\ pc' = "sg_last_sync"
     \/ \* the commit raises
        /\ pc' = "sg_except"
        /\ UNCHANGED db
  /\ UNCHANGED <<inputs, gi, sess, group_locals, result, failed_count, events, notified, cache>>

\* group_db_obj.last_sync = download_started; db.add; db.commit(); then the
\* success result is returned to sync, which appends it and announces it.
sync_group_last_sync ==
  /\ pc = "sg_last_sync"
  /\ LET upd == [sess EXCEPT !.last_sync[Entry.group] = download_started(Entry)] IN
     \/ /\ sess' = upd
        /\ db' = upd
        /\ result' = [result EXCEPT !.groups =
                        Append(@, GroupSuccessResult(Entry, total_updated_count))]
        /\ notify(CompletedEvent(Entry, GroupSuccessResult(Entry, total_updated_count)))
        /\ sync_group_locals_init
        /\ pc' = "loop"
     \/ \* group_by_name or the commit raises
        /\ sess' = upd
        /\ pc' = "sg_except"
        /\ UNCHANGED <<db, result, events, notified, group_locals>>
  /\ UNCHANGED <<inputs, gi, failed_count, cache>>

\* Variant of sync_group_except: the except clause commits what is pending.
sync_group_except_commits ==
  /\ pc = "sg_except"
  /\ db' = sess
  /\ sync_group_locals_init
  /\ sync_except_clause
  /\ UNCHANGED <<inputs, sess, result, cache>>

\* Variant of sync_group_except: the error is logged and the record loop
\* goes on with the next record.
sync_group_except_skips_record ==
  /\ pc = "sg_except"
  /\ pc' = "sg_read"
  /\ UNCHANGED <<inputs, gi, db, sess, group_locals, result, failed_count, events,
                 notified, cache>>

\* Variant of sync_group_except: the exception is re-raised without rollback.
sync_group_except_no_rollback ==
  /\ pc = "sg_except"
  /\ sync_group_locals_init
  /\ sync_except_clause
  /\ UNCHANGED <<inputs, db, sess, result, cache>>

\* except Exception: db.rollback(); raise -- and the exception reaches the
\* except clause of sync.
sync_group_except ==
  /\ pc = "sg_except"
  /\ sess' = db
  /\ sync_group_locals_init
  /\ sync_except_clause
  /\ UNCHANGED <<inputs, db, result, cache>>

\* datetime.utcnow() when the feed timestamps are written: later than every
\* download.
utcnow == MaxStarted + 1

\* Variant of sync_finish: last_full_sync is left as it was.
sync_finish_last_update_only ==
  /\ pc = "loop"
  /\ gi = Len(manifest)
  /\ \/ /\ sess' = [sess EXCEPT !.last_update = utcnow]
        /\ db' = sess'
        /\ result' = [result EXCEPT !.status = feed_status(failed_count)]
        /\ cache' = cache_on_exit(feed_name, cache, FALSE)
        /\ pc' = "returned"
     \/ /\ sess' = db
        /\ cache' = cache_on_exit(feed_name, cache, TRUE)
        /\ pc' = "raised"
        /\ UNCHANGED <<db, result>>
  /\ UNCHANGED <<inputs, gi, group_locals, failed_count, events, notified>>

\* Variant of sync_finish: the failed timestamp update is not rolled back.
sync_finish_no_rollback ==
  /\ pc = "loop"
  /\ gi = Len(manifest)
  /\ \/ /\ sess' = [sess EXCEPT !.last_update = utcnow, !.last_full_sync = utcnow]
        /\ db' = sess'
        /\ result' = [result EXCEPT !.status = feed_status(failed_count)]
        /\ cache' = cache_on_exit(feed_name, cache, FALSE)
        /\ pc' = "returned"
     \/ /\ sess' = [sess EXCEPT !.last_update = utcnow, !.last_full_sync = utcnow]
        /\ cache' = cache_on_exit(feed_name, cache, TRUE)
        /\ pc' = "raised"
        /\ UNCHANGED <<db, result>>
  /\ UNCHANGED <<inputs, gi, group_locals, failed_count, events, notified>>

\* The manifest is exhausted: _update_last_full_sync_timestamp, the status of
\* the result and the return of sync (with the finally clause of
\* VulnerabilityFeed.sync).
sync_finish ==
  /\ pc = "loop"
  /\ gi = Len(manifest)
  /\ \/ /\ sess' = [sess EXCEPT !.last_update = utcnow, !.last_full_sync = utcnow]
        /\ db' = sess'
        /\ result' = [result EXCEPT !.status = feed_status(failed_count)]
        /\ cache' = cache_on_exit(feed_name, cache, FALSE)
        /\ pc' = "returned"
     \/ \* the refresh or the commit raises: rollback, and sync raises
        /\ sess' = db
        /\ cache' = cache_on_exit(feed_name, cache, TRUE)
        /\ pc' = "raised"
        /\ UNCHANGED <<db, result>>
  /\ UNCHANGED <<inputs, gi, group_locals, failed_count, events, notified>>

Next ==
  \/ sync_enter
  \/ sync_next_group
  \/ sync_group_enter
  \/ sync_group_flush
  \/ sync_group_load_mapper
  \/ sync_group_record
  \/ sync_group_read_fails
  \/ sync_group_chunk_commit
  \/ sync_group_residual_commit
  \/ sync_group_last_sync
  \/ sync_group_except
  \/ sync_finish

Spec == Init /\ [][Next]_vars

\* The worker is a thread that runs until sync returns or raises: a step
\* that can be taken is taken.
SpecFair == Spec /\ WF_vars(Next)

SpecImages == InitImages /\ [][Next]_vars

\* A sync called with an event client, whose add_event may raise.
InitEvents == InitWith({"client"}, {TRUE}, {<<>>})

SpecEvents == InitEvents /\ [][Next]_vars

\* --------------------------------------------------- repeated sync
\* Repos whose contents are fixed: every group holds the same records, none
\* or as many as a group may hold.
FixedRepos(groups) ==
  {[g \in groups |-> recs] :
     recs \in UNION {[1..n -> RawRecords] : n \in {0, MaxRecords}}}

\* The caller calls sync again on the same feed instance with the same
\* fetched_data and full_flush, once sync has returned.
sync_again ==
  /\ pc = "returned"
  /\ previous_syncs = <<>>
  /\ previous_syncs' = Append(previous_syncs, [failed_count |-> failed_count, db |-> db0])
  /\ db0' = db
  /\ pc' = "start"
  /\ gi' = 0
  /\ result' = build_feed_sync_results
  /\ failed_count' = 0
  /\ events' = <<>>
  /\ notified' = "none"
  /\ UNCHANGED <<feed_name, full_flush, metadata_groups, manifest, db, sess,
                 group_locals, cache, registry, lookup, match_vars, event_client, repo,
                 flush_vars, images, worker_vars>>

\* A sync that will be repeated: the repo is fixed, the manifest holds
\* entries of this feed only, and every group was downloaded at the same
\* instant.
InitResync ==
  /\ InitWith({"None"}, BOOLEAN, FixedRepos({"debian:10", "ubuntu:20.04", "gem", "pypi"}))
  /\ \A i \in DOMAIN manifest :
        manifest[i].feed = feed_name /\ manifest[i].started = 1

NextResync == Next \/ sync_again

SpecResync == InitResync /\ [][NextResync]_vars

\* ------------------------------------------------- registry specification
\* The registry while feed classes are defined and looked up; no sync runs.
sync_vars_only == <<feed_name, full_flush, metadata_groups, manifest, pc, gi, db0, db,
               sess, read_count, record, emitted, count, total_updated_count, existing,
               fn_calls, result, failed_count, events, cache, match_vars,
               event_client, notified, repo, previous_syncs>>
sync_vars == <<sync_vars_only, flush_vars, images, worker_vars>>

InitRegistry ==
  /\ feed_name = VulnFeedName
  /\ full_flush = FALSE
  /\ metadata_groups = {}
  /\ manifest = <<>>
  /\ pc = "start"
  /\ gi = 0
  /\ db \in {d \in InitialDbs({}) : d.last_update = 0}
  /\ db0 = db
  /\ sess = db
  /\ read_count = 0
  /\ record = <<>>
  /\ emitted = {}
  /\ count = 0
  /\ total_updated_count = 0
  /\ existing = {}
  /\ fn_calls = <<>>
  /\ result = build_feed_sync_results
  /\ failed_count = 0
  /\ events = <<>>
  /\ cache = {}
  /\ registry = <<>>
  /\ lookup = NoLookup
  /\ vulnerability_a = {}
  /\ vulnerability_b = {}
  /\ match_result = "none"
  /\ event_client = "None"
  /\ notified = "none"
  /\ repo = <<>>
  /\ previous_syncs = <<>>
  /\ NoFlushCall
  /\ NoWorkers
  /\ images = {}

\* FeedMeta.__init__ of a class that declares __feed_name__.
feed_meta_init ==
  /\ \E c \in FeedClasses :
        /\ c.feed \notin RegistryKeys(registry)
        /\ registry' = RegistrySet(registry, Lower(c.feed), c.cls)
  /\ UNCHANGED <<sync_vars, lookup>>

\* A call of DataFeed.get_feed_by_name (feed_instance_by_name).
feed_lookup ==
  /\ \E name \in LookupNames : lookup' = get_feed_by_name(registry, name)
  /\ UNCHANGED <<sync_vars, registry>>

NextRegistry == feed_meta_init \/ feed_lookup

SpecRegistry == InitRegistry /\ [][NextRegistry]_vars

\* ------------------------------------------ match-equivalence specification
\* FixedArtifact rows that differ from FixOld in a field outside the triple,
\* and in the version.
FixOldRpm == [FixOld EXCEPT !.version_format = "rpm"]
FixNew == [FixOld EXCEPT !.epochless_version = "1.1", !.version = "1.1-1"]

\* Vulnerability records _are_match_equivalent may be called with.
MatchRecords ==
  [id : Ids, namespace_name : {"debian:10", "ubuntu:20.04"},
   fixed_in : {{}, {FixOld}, {FixOldRpm}, {FixNew}, {FixOld, FixOldRpm}},
   vulnerable_in : {{}, {"pkg"}}]

\* The arguments of a call: a record or None.
MatchArguments == {{}} \cup {{v} : v \in MatchRecords}

InitMatch ==
  /\ feed_name = VulnFeedName
  /\ full_flush = FALSE
  /\ metadata_groups = {}
  /\ manifest = <<>>
  /\ pc = "start"
  /\ gi = 0
  /\ db \in {d \in InitialDbs({}) : d.last_update = 0}
  /\ db0 = db
  /\ sess = db
  /\ read_count = 0
  /\ record = <<>>
  /\ emitted = {}
  /\ count = 0
  /\ total_updated_count = 0
  /\ existing = {}
  /\ fn_calls = <<>>
  /\ result = build_feed_sync_results
  /\ failed_count = 0
  /\ events = <<>>
  /\ cache = {}
  /\ registry = ImportedRegistry
  /\ lookup = NoLookup
  /\ vulnerability_a \in MatchArguments
  /\ vulnerability_b \in MatchArguments
  /\ match_result = "none"
  /\ event_client = "None"
  /\ notified = "none"
  /\ repo = <<>>
  /\ previous_syncs = <<>>
  /\ NoFlushCall
  /\ NoWorkers
  /\ images = {}

\* VulnerabilityFeed._are_match_equivalent(vulnerability_a, vulnerability_b)
match_call ==
  /\ match_result = "none"
  /\ match_result' = are_match_equivalent_call(vulnerability_a, vulnerability_b)
  /\ UNCHANGED <<feed_name, full_flush, metadata_groups, manifest, pc, gi, db0, db,
                 sess, read_count, record, emitted, count, total_updated_count,
                 existing, fn_calls, result, failed_count, events, notified, cache, registry,
                 lookup, vulnerability_a, vulnerability_b, event_client, notified,
                 repo, previous_syncs, flush_vars, images, worker_vars>>

NextMatch == match_call

SpecMatch == InitMatch /\ [][NextMatch]_vars

\* ---------------------------------------------------- flush specification
\* _flush_group of each feed class, called on its own on a session that
\* holds rows of every feed. A row names its table, the feed and the group
\* that wrote it, and its key. GemMetadata and NpmMetadata have no group
\* column: the packages feed writes a table per group.
FlushClasses ==
  {"AnchoreServiceFeed", "VulnerabilityFeed", "PackagesFeed", "NvdV2Feed", "VulnDBFeed"}

\* The groups of each feed; "generic" and "generic-2" are feeds whose data
\* is kept in GenericFeedDataRecord.
FlushGroups(f) ==
  CASE f = "generic" -> {"group-a", "group-b"}
    [] f = "generic-2" -> {"group-a"}
    [] f = "vulnerabilities" -> {"debian:10", "ubuntu:20.04"}
    [] f = "packages" -> {"gem", "npm", "pypi"}
    [] f = "nvdv2" -> {"nvdv2:cves", "nvdv2:other"}
    [] f = "vulndb" -> {"vulndb:vulnerabilities", "vulndb:other"}

\* __feed_name__ of the class; AnchoreServiceFeed stands for a feed that
\* inherits _flush_group unchanged.
FlushFeedName(cls) ==
  CASE cls = "AnchoreServiceFeed" -> "generic"
    [] cls = "VulnerabilityFeed" -> "vulnerabilities"
    [] cls = "PackagesFeed" -> "packages"
    [] cls = "NvdV2Feed" -> "nvdv2"
    [] cls = "VulnDBFeed" -> "vulndb"

\* The rows a full database holds.
AllTableRows ==
  [table : {"GenericFeedDataRecord"}, feed : {"generic"}, group : FlushGroups("generic"),
   id : {"k"}]
  \cup [table : {"GenericFeedDataRecord"}, feed : {"generic-2"},
        group : FlushGroups("generic-2"), id : {"k"}]
  \cup [table : {"Vulnerability", "FixedArtifact"}, feed : {"vulnerabilities"},
        group : FlushGroups("vulnerabilities"), id : {"k"}]
  \cup {[table |-> "GemMetadata", feed |-> "packages", group |-> "gem", id |-> "k"],
        [table |-> "NpmMetadata", feed |-> "packages", group |-> "npm", id |-> "k"]}
  \cup [table : {"NvdV2Metadata", "CpeV2Vulnerability"}, feed : {"nvdv2"},
        group : FlushGroups("nvdv2"), id : {"k"}]
  \cup [table : {"VulnDBMetadata", "VulnDBCpe"}, feed : {"vulndb"},
        group : FlushGroups("vulndb"), id : {"k"}]

\* The rows that remain after query(table).filter(namespace_name == name).delete()
\* on each of the given tables.
delete_by_namespace(rows, tbls, name) ==
  {r \in rows : ~(r.table \in tbls /\ r.group = name)}

\* The rows that remain after query(table).delete().
delete_all(rows, table) == {r \in rows : r.table # table}

\* _flush_group of the class cls: the rows that remain in the session.
\* __flush_helper_fn__ (None, or flush_vulnerability_matches for the
\* vulnerabilities feed) removes image matches and none of these rows.
flush_group_of_class(cls, rows, g) ==
  CASE cls = "AnchoreServiceFeed" -> delete_all(rows, "GenericFeedDataRecord")
    [] cls = "VulnerabilityFeed" ->
         delete_by_namespace(rows, {"FixedArtifact", "Vulnerability"}, g.name)
    [] cls = "PackagesFeed" ->
         IF g.name = "npm" THEN delete_all(rows, "NpmMetadata")
         ELSE IF g.name = "gem" THEN delete_all(rows, "GemMetadata")
         ELSE rows
    [] cls = "NvdV2Feed" ->
         delete_by_namespace(rows, {"CpeV2Vulnerability", "NvdV2Metadata"}, g.name)
    [] cls = "VulnDBFeed" ->
         delete_by_namespace(rows, {"VulnDBCpe", "VulnDBMetadata"}, g.name)

\* A feed instance, one of its groups and a database that holds all rows
\* but at most one.
InitFlush ==
  /\ InitWith({"None"}, {TRUE}, {<<>>})
  /\ feed_name = VulnFeedName
  /\ metadata_groups = {}
  /\ manifest = <<>>
  /\ db.last_update = 0
  /\ pc = "start"

flush_call_init ==
  /\ flush_self = "none"
  /\ flush_self' \in FlushClasses
  /\ group_obj' \in [feed_name : {FlushFeedName(flush_self')},
                     name : FlushGroups(FlushFeedName(flush_self'))]
  /\ tables' \in {AllTableRows \ missing :
                    missing \in {{}} \cup {{r} : r \in AllTableRows}}
  /\ tables0' = tables'
  /\ flushed' = FALSE
  /\ UNCHANGED <<sync_vars_only, registry, lookup, images, worker_vars>>

\* self._flush_group(group_obj)
flush_call ==
  /\ flush_self # "none"
  /\ ~flushed
  /\ tables' = flush_group_of_class(flush_self, tables, group_obj)
  /\ flushed' = TRUE
  /\ UNCHANGED <<sync_vars_only, registry, lookup, flush_self, group_obj, tables0,
                 images, worker_vars>>

NextFlush == flush_call_init \/ flush_call

SpecFlush == InitFlush /\ [][NextFlush]_vars

\* -------------------------------------------------- workers specification
\* VulnerabilityFeed.sync on worker threads that run side by side, as far
\* as the group-name cache goes: the entry installs the cache, the finally
\* clause flushes it, and AnchoreServiceFeed.sync in between leaves it alone.
MaxSyncs == 2

Workers == {"worker-1", "worker-2"}

\* The group names self.metadata.groups may hold when a sync is entered.
WorkerMetadataChoices == SUBSET {"debian:10", "ubuntu:20.04"}

\* The thread-local storage of ThreadLocalFeedGroupNameCache: what thread w
\* reads, and the storage after thread w has written c.
thread_local_get(caches, w) == caches[w]
thread_local_set(caches, w, c) == [caches EXCEPT ![w] = c]

InitWorkers ==
  /\ feed_name = VulnFeedName
  /\ full_flush = FALSE
  /\ metadata_groups = {}
  /\ manifest = <<>>
  /\ pc = "start"
  /\ gi = 0
  /\ db \in {d \in InitialDbs({}) : d.last_update = 0}
  /\ db0 = db
  /\ sess = db
  /\ read_count = 0
  /\ record = <<>>
  /\ emitted = {}
  /\ count = 0
  /\ total_updated_count = 0
  /\ existing = {}
  /\ fn_calls = <<>>
  /\ result = build_feed_sync_results
  /\ failed_count = 0
  /\ events = <<>>
  /\ cache = {}
  /\ registry = ImportedRegistry
  /\ lookup = NoLookup
  /\ vulnerability_a = {}
  /\ vulnerability_b = {}
  /\ match_result = "none"
  /\ event_client = "None"
  /\ notified = "none"
  /\ repo = <<>>
  /\ previous_syncs = <<>>
  /\ NoFlushCall
  /\ images = {}
  /\ worker_pc = [w \in Workers |-> "idle"]
  /\ worker_metadata = [w \in Workers |-> {}]
  /\ worker_previous = [w \in Workers |-> {}]
  /\ worker_syncs = [w \in Workers |-> 0]
  /\ worker_cache = [w \in Workers |-> {}]

\* A worker enters VulnerabilityFeed.sync: the cache is set up from the
\* groups of the metadata, and super().sync is called.
worker_sync_enter ==
  \E w \in Workers, groups \in WorkerMetadataChoices :
     /\ worker_pc[w] = "idle"
     /\ worker_syncs[w] < MaxSyncs
     /\ worker_cache' = thread_local_set(worker_cache, w,
                          cache_on_entry(VulnFeedName, groups,
                                         thread_local_get(worker_cache, w)))
     /\ worker_pc' = [worker_pc EXCEPT ![w] = "sync"]
     /\ worker_previous' = [worker_previous EXCEPT ![w] = worker_metadata[w]]
     /\ worker_metadata' = [worker_metadata EXCEPT ![w] = groups]
     /\ worker_syncs' = [worker_syncs EXCEPT ![w] = @ + 1]
     /\ UNCHANGED <<sync_vars_only, registry, lookup, flush_vars, images>>

\* super().sync returns or raises on a worker: the finally clause.
worker_sync_exit ==
  \E w \in Workers, raised \in BOOLEAN :
     /\ worker_pc[w] = "sync"
     /\ worker_cache' = thread_local_set(worker_cache, w,
                          cache_on_exit(VulnFeedName,
                                        thread_local_get(worker_cache, w), raised))
     /\ worker_pc' = [worker_pc EXCEPT ![w] = "idle"]
     /\ UNCHANGED <<sync_vars_only, registry, lookup, flush_vars, images,
                    worker_metadata, worker_previous, worker_syncs>>

NextWorkers == worker_sync_enter \/ worker_sync_exit

SpecWorkers == InitWorkers /\ [][NextWorkers]_vars

\* ----------------------------------------------------------------- claims
\* Groups of this sync whose _sync_group raised.
FailedGroups ==
  {events[i].group : i \in {j \in DOMAIN events : events[j].type = "FeedGroupSyncFailed"}}

\* The manifest entries of this feed that name group g.
EntriesOf(g) ==
  {manifest[k] : k \in {j \in DOMAIN manifest :
                          manifest[j].feed = feed_name /\ manifest[j].group = g}}

\* C1: after a group sync failed, by an exception at any point or because
\* the group is not in the metadata, the persisted last_sync of the group is
\* the one from before the sync.
C1_FailedSyncKeepsLastSync ==
  /\ \A g \in FailedGroups :
        g \in DOMAIN db.last_sync => db.last_sync[g] = db0.last_sync[g]
  /\ \A i \in DOMAIN result.groups :
        result.groups[i].status = "failure" =>
          result.groups[i].group \notin DOMAIN db.last_sync

\* A group failed after a chunk of its records was committed, and sync
\* returned.
C1_Witness ==
  /\ pc = "returned"
  /\ \E g \in FailedGroups :
        /\ g \in DOMAIN db.last_sync
        /\ RowsOf(db.rows, g) # RowsOf(db0.rows, g)
        /\ \E e \in EntriesOf(g) : e.started # db0.last_sync[g]

\* C2: after a group sync succeeded, the persisted last_sync of the group is
\* the started instant of its manifest entry.
C2_SuccessSetsLastSync ==
  \A i \in DOMAIN result.groups :
    result.groups[i].status = "success" =>
      \A e \in EntriesOf(result.groups[i].group) :
        db.last_sync[e.group] = e.started

\* A sync returned after one group succeeded with no record and another
\* with more records than a chunk holds.
C2_Witness ==
  /\ pc = "returned"
  /\ \E i, j \in DOMAIN result.groups :
        /\ result.groups[i].status = "success"
        /\ result.groups[i].updated_record_count = 0
        /\ result.groups[j].status = "success"
        /\ result.groups[j].updated_record_count > RECORDS_PER_CHUNK
        /\ db.last_sync[result.groups[j].group] # db0.last_sync[result.groups[j].group]

\* C3: the committed last_sync of a group changes only in the last step of
\* _sync_group, after the repo is exhausted, when every record it yielded
\* is already merged and committed; it becomes the started instant.
C3_LastSyncAfterAllRecords ==
  [][ \A g \in DOMAIN db.last_sync :
        db'.last_sync[g] # db.last_sync[g] =>
          /\ pc = "sg_last_sync"
          /\ g = Entry.group
          /\ db'.last_sync[g] = Entry.started
          /\ read_count = total_updated_count
          /\ emitted \subseteq db.rows
          /\ db'.rows = db.rows ]_vars

\* The last_sync of a group was advanced after records were committed by a
\* chunk commit and by the residual commit.
C3_Witness ==
  \E i \in DOMAIN result.groups :
    /\ result.groups[i].status = "success"
    /\ result.groups[i].updated_record_count > RECORDS_PER_CHUNK
    /\ db.last_sync[result.groups[i].group] # db0.last_sync[result.groups[i].group]
    /\ RowsOf(db.rows, result.groups[i].group) # RowsOf(db0.rows, result.groups[i].group)

\* C4: the result sync returns has status success iff every entry of its
\* groups list has status success.
C4_StatusIffAllGroupsSucceed ==
  pc = "returned" =>
    (result.status = "success" <=>
       \A i \in DOMAIN result.groups : result.groups[i].status = "success")

\* C5: the result sync returns holds one group result for every manifest
\* entry of this feed, with status failure for a group whose sync failed.
C5_ResultDescribesEveryGroup ==
  pc = "returned" =>
    \A k \in DOMAIN manifest :
      manifest[k].feed = feed_name =>
        /\ Cardinality({i \in DOMAIN result.groups :
                          result.groups[i].group = manifest[k].group}) = 1
        /\ manifest[k].group \in FailedGroups =>
              \E i \in DOMAIN result.groups :
                /\ result.groups[i].group = manifest[k].group
                /\ result.groups[i].status = "failure"

IsStarted(ev) == ev.type = "FeedGroupSyncStarted"
IsOwnEntry(e) == e.feed = feed_name
GroupNames(seq) == [i \in DOMAIN seq |-> seq[i].group]
InSyncGroup == pc \in {"sg_enter", "sg_flush", "sg_mapper", "sg_read", "sg_commit",
                       "sg_last_sync", "sg_except"}

\* C6: the groups attempted so far are the entries of this feed among the
\* manifest entries iterated, in manifest order, each once; the loop ends
\* only when the manifest is exhausted, whatever groups failed; and every
\* attempt has ended, in a completed or a failed event, before the next
\* attempt begins.
C6_EveryGroupAttemptedInOrder ==
  /\ GroupNames(SelectSeq(events, IsStarted))
       = GroupNames(SelectSeq(SubSeq(manifest, 1, gi), IsOwnEntry))
  /\ pc \in {"returned", "raised"} =>
        Len(SelectSeq(events, IsStarted)) = Len(SelectSeq(manifest, IsOwnEntry))
  /\ \A k \in DOMAIN events :
        IF IsStarted(events[k])
          THEN IF k < Len(events)
                 THEN /\ ~IsStarted(events[k + 1])
                      /\ events[k + 1].group = events[k].group
                 ELSE InSyncGroup /\ Entry.group = events[k].group
          ELSE k > 1 /\ IsStarted(events[k - 1])
  /\ InSyncGroup => events # <<>> /\ IsStarted(events[Len(events)])

\* Sync returned after the first of two groups failed and the second one
\* succeeded.
C6_Witness ==
  /\ pc = "returned"
  /\ Len(events) = 4
  /\ events[2].type = "FeedGroupSyncFailed"
  /\ events[4].type = "FeedGroupSyncCompleted"
  /\ \E i \in DOMAIN result.groups :
        result.groups[i].group = events[4].group /\ result.groups[i].status = "success"

\* _sync_group has raised while it processed a record (map, lookup, merge or
\* vulnerability_processing_fn); the rollback is still to come and changes
\* no committed row.
RaisedAtRecord == pc = "sg_except" /\ read_count = total_updated_count + 1

\* C7: when _sync_group fails at a record, no change of this sync to the
\* group is committed: the persisted rows of the group are the rows from
\* before the sync.
C7_FailedGroupKeepsRows ==
  RaisedAtRecord => RowsOf(db.rows, Entry.group) = RowsOf(db0.rows, Entry.group)

\* C8: the group-name cache is empty whenever VulnerabilityFeed.sync has
\* returned or raised.
C8_CacheEmptyAfterSync ==
  (feed_name = VulnFeedName /\ pc \in {"returned", "raised"}) => cache = {}

\* The vulnerability sync of a feed with groups was left by the exception of
\* the final timestamp update.
C8_Witness ==
  /\ feed_name = VulnFeedName
  /\ pc = "raised"
  /\ metadata_groups # {}
  /\ Len(events) > 0

\* C9: a call of get_feed_by_name with a name that matches no registered
\* feed raises KeyError.
C9_UnknownNameNotFound ==
  (lookup.outcome # "none" /\ Lower(lookup.name) \notin RegistryKeys(registry)) =>
    lookup.outcome = "KeyError"

\* An iteration of the record loop of the vulnerability feed, and one that
\* ran to its end.
RecordStep == pc = "sg_read" /\ read_count' = read_count + 1 /\ feed_name = VulnFeedName
RecordStepCompleted == RecordStep /\ pc' \in {"sg_read", "sg_commit"}

\* C10 as claimed: vulnerability_processing_fn is invoked once for a record
\* if no row with its key exists or the existing row is not match-equivalent
\* to it, and not at all otherwise; the record is merged.
C10_ProcessingIffRowDiffers ==
  [][ RecordStepCompleted =>
        LET m == MapRecord(Entry.group, record'[1])
            row == Lookup(sess.rows, m)
        IN /\ fn_calls' = IF row = {} \/ \E x \in row : x.fixed_in # m.fixed_in
                            THEN <<m>> ELSE <<>>
           /\ m \in sess'.rows ]_vars

\* C10, amended: vulnerability_processing_fn is invoked once for a record if
\* the lookup of the existing row found none (no row exists, or the lookup
\* raised) or the row found is not match-equivalent to the record, and not
\* at all otherwise; the record is merged into the session.
C10_ProcessingIffLookupDiffers ==
  [][ RecordStep =>
        LET m == MapRecord(Entry.group, record'[1])
        IN /\ existing' \in {Lookup(sess.rows, m), {}}
           /\ fn_calls' \in {<<>>, <<m>>}
           /\ fn_calls' = <<m>> =>
                 (existing' = {} \/ \E x \in existing' : x.fixed_in # m.fixed_in)
           /\ RecordStepCompleted =>
                 /\ fn_calls' = <<>> =>
                       (existing' # {} /\ \A x \in existing' : x.fixed_in = m.fixed_in)
                 /\ m \in sess'.rows ]_vars

\* A record was merged without a call of vulnerability_processing_fn, its
\* row being match-equivalent, after a record that needed the call.
C10_Witness ==
  /\ feed_name = VulnFeedName
  /\ pc \in {"sg_read", "sg_commit"}
  /\ read_count >= 2
  /\ existing # {}
  /\ fn_calls = <<>>
  /\ MapRecord(Entry.group, record[1]) \in sess.rows
  /\ MapRecord(Entry.group, record[1]) \notin db.rows

\* The (name, epochless_version, version) triples of the fixes of a record.
FixTriples(v) == {<<f.name, f.epochless_version, f.version>> : f \in v.fixed_in}

\* C11: a call of _are_match_equivalent returns a value: true when both
\* records are non-null, have the same id and namespace_name and equal sets
\* of fix triples, false in every other case, a null argument included.
C11_MatchEquivalentIsTotal ==
  match_result # "none" =>
    match_result =
      IF /\ vulnerability_a # {}
         /\ vulnerability_b # {}
         /\ \A a \in vulnerability_a : \A b \in vulnerability_b :
               /\ a.id = b.id
               /\ a.namespace_name = b.namespace_name
               /\ FixTriples(a) = FixTriples(b)
        THEN "True"
        ELSE "False"

\* C12: _are_match_equivalent(a, a) is true for every record a, and a call
\* on two records gives what the call with the arguments swapped gives.
C12_MatchEquivalenceReflexiveSymmetric ==
  (match_result # "none" /\ vulnerability_a # {} /\ vulnerability_b # {}) =>
    /\ vulnerability_a = vulnerability_b => match_result = "True"
    /\ match_result = are_match_equivalent_call(vulnerability_b, vulnerability_a)
    /\ match_result \in {"True", "False"}

\* The call was made on two records of one key of which the second one has
\* every fix of the first one and one more.
C12_Witness ==
  /\ match_result = "False"
  /\ \E a \in vulnerability_a : \E b \in vulnerability_b :
        /\ a.id = b.id
        /\ a.namespace_name = b.namespace_name
        /\ FixTriples(a) # FixTriples(b)
        /\ FixTriples(a) \subseteq FixTriples(b)

\* C14: when a vulnerability group sync with full_flush succeeds, the
\* persisted rows of the group's namespace are exactly the rows mapped from
\* the records the repo yielded.
C14_FullFlushLeavesInputRows ==
  [][ (feed_name = VulnFeedName /\ full_flush /\ pc = "sg_last_sync" /\ pc' = "loop")
        => RowsOf(db'.rows, Entry.group) = emitted ]_vars

\* A vulnerability group was synced with full_flush over rows of which the
\* input holds CVE-1 only: CVE-2 is gone and CVE-1 is there.
C14_Witness ==
  /\ feed_name = VulnFeedName
  /\ full_flush
  /\ pc = "loop"
  /\ \E i \in DOMAIN result.groups :
        LET g == result.groups[i].group IN
        /\ result.groups[i].status = "success"
        /\ \E r \in RowsOf(db0.rows, g) : r.id = "CVE-2"
        /\ {r.id : r \in RowsOf(db.rows, g)} = {"CVE-1"}

\* C17: when the final timestamp update fails, nothing of it stays in the
\* session or is persisted (last_update and last_full_sync keep their
\* values), sync raises, and its result was not set to success.
C17_TimestampFailureRollsBack ==
  [][ (pc = "loop" /\ pc' \in {"returned", "raised"}) =>
        \/ /\ pc' = "returned"
           /\ db'.last_update = utcnow
           /\ db'.last_full_sync = utcnow
        \/ /\ pc' = "raised"
           /\ db'.last_update = db.last_update
           /\ db'.last_full_sync = db.last_full_sync
           /\ sess' = db'
           /\ result'.status = "failure" ]_vars

\* Sync raised from the final timestamp update after every group of the
\* manifest had succeeded.
C17_Witness ==
  /\ pc = "raised"
  /\ failed_count = 0
  /\ Len(result.groups) = MaxManifest
  /\ \A i \in DOMAIN result.groups : result.groups[i].status = "success"
  /\ db.last_update = db0.last_update

\* C18: the persisted last_sync of a group never decreases.
C18_LastSyncNeverDecreases ==
  [][ \A g \in DOMAIN db.last_sync : db'.last_sync[g] >= db.last_sync[g] ]_vars

\* C20: every FeedGroupSyncCompleted event carries a group result of
\* status success.
C20_CompletedOnlyOnSuccess ==
  \A k \in DOMAIN events :
    events[k].type = "FeedGroupSyncCompleted" => events[k].result.status = "success"

\* The events of a type, and of a type for a group.
EventsOf(type) == {k \in DOMAIN events : events[k].type = type}
EventsFor(type, g) == {k \in EventsOf(type) : events[k].group = g}
Terminal(ev) == ev.type \in {"FeedGroupSyncCompleted", "FeedGroupSyncFailed"}

\* The last event is the start of a group whose terminal event is due.
AttemptOpen == events # <<>> /\ IsStarted(events[Len(events)])

\* What holds of the events in every state: one start per iterated entry of
\* this feed and none for the others, emitted before the group is touched;
\* the event after a start is the one terminal event of its group.
EventsWellFormed ==
  /\ \A k \in DOMAIN manifest :
        manifest[k].feed = feed_name =>
          /\ Cardinality(EventsFor("FeedGroupSyncStarted", manifest[k].group))
                = IF k <= gi THEN 1 ELSE 0
          /\ Cardinality(EventsFor("FeedGroupSyncCompleted", manifest[k].group))
                + Cardinality(EventsFor("FeedGroupSyncFailed", manifest[k].group)) <= 1
  /\ \A k \in DOMAIN events :
        IF IsStarted(events[k])
          THEN k < Len(events) =>
                 Terminal(events[k + 1]) /\ events[k + 1].group = events[k].group
          ELSE Terminal(events[k]) /\ k > 1 /\ IsStarted(events[k - 1])
  /\ AttemptOpen <=> InSyncGroup
  /\ pc = "sg_enter" =>
        sess = db /\ read_count = 0 /\ \A i \in DOMAIN result.groups :
                                          result.groups[i].group # Entry.group

\* C15: every manifest entry of this feed gets exactly one
\* FeedGroupSyncStarted event, emitted before the group is processed, and
\* that event is eventually followed by exactly one terminal event of the
\* same group, which comes before the start of the next group.
C15_StartedThenOneTerminal ==
  /\ []EventsWellFormed
  /\ AttemptOpen ~> ~AttemptOpen
  /\ <>(pc \in {"returned", "raised"})

\* Sync returned after two groups of which one ended in a completed and the
\* other in a failed event.
C15_Witness ==
  /\ pc = "returned"
  /\ Len(events) = 4
  /\ events[2].type = "FeedGroupSyncCompleted"
  /\ events[4].type = "FeedGroupSyncFailed"

\* C19: for a manifest entry whose group the metadata does not hold,
\* _sync_group flushes, merges and commits nothing and leaves every
\* last_sync alone, and when it returns (the refresh did not raise) its
\* result has status failure and zero counts and is announced as any
\* returned result is; the loop goes on with the next entry.
C19_UnknownGroupChangesNothing ==
  [][ (pc = "sg_enter" /\ Entry.group \notin metadata_groups) =>
        /\ db' = db
        /\ sess' = sess
        /\ pc' = "loop"
        /\ gi' = gi
        /\ UNCHANGED <<group_locals, cache>>
        /\ \/ /\ failed_count' = failed_count
              /\ result' = [result EXCEPT !.groups = Append(@,
                    [group |-> Entry.group, status |-> "failure",
                     updated_record_count |-> 0, updated_image_count |-> 0])]
              /\ events'[Len(events')].type = "FeedGroupSyncCompleted"
           \/ /\ failed_count' = failed_count + 1
              /\ result' = result
              /\ events'[Len(events')].type = "FeedGroupSyncFailed" ]_vars

\* Sync returned after an entry of an unknown group, which got a failure
\* result, and after it an entry of a known group, which was synced.
C19_Witness ==
  /\ pc = "returned"
  /\ Len(result.groups) = 2
  /\ result.groups[1].status = "failure"
  /\ result.groups[1].group \notin metadata_groups
  /\ result.groups[2].status = "success"
  /\ result.groups[2].updated_record_count > 0
  /\ db.last_sync[result.groups[2].group] # db0.last_sync[result.groups[2].group]

\* C16: whether add_event succeeds or raises, notify_event returns, and the
\* step of sync that announced the event goes on as the code path of the
\* event prescribes: a start is followed by _sync_group, a returned result
\* is appended and not counted as a failure, a raise of _sync_group is
\* counted once; the database and the session are not touched by the
\* announcement.
C16_DeliveryErrorsSwallowed ==
  [][ Len(events') > Len(events) =>
        LET ev == events'[Len(events')] IN
        /\ notified' \in {"delivered", "swallowed"}
        /\ Len(events') = Len(events) + 1
        /\ pc' # "raised"
        /\ CASE ev.type = "FeedGroupSyncStarted" ->
                  /\ pc' = "sg_enter"
                  /\ UNCHANGED <<db, sess, result, failed_count>>
             [] ev.type = "FeedGroupSyncCompleted" ->
                  /\ pc' = "loop"
                  /\ result' = [result EXCEPT !.groups = Append(@, ev.result)]
                  /\ failed_count' = failed_count
                  /\ db'.rows = db.rows
             [] ev.type = "FeedGroupSyncFailed" ->
                  /\ pc' = "loop"
                  /\ result' = result
                  /\ failed_count' = failed_count + 1
                  /\ db' = db ]_vars

\* Sync returned success for every group of the manifest although the
\* delivery of the last event failed.
C16_Witness ==
  /\ pc = "returned"
  /\ notified = "swallowed"
  /\ result.status = "success"
  /\ Len(result.groups) = MaxManifest
  /\ \A i \in DOMAIN result.groups : result.groups[i].status = "success"

C21_FlushKeepsForeignRows ==
  flushed =>
    \A r \in tables0 :
       (r.feed # group_obj.feed_name \/ r.group # group_obj.name) => r \in tables

\* The group sync has not committed yet: it is at the flush, at the mapper,
\* or in the record loop before the first chunk is complete or committed.
BeforeFirstCommit ==
  \/ pc \in {"sg_flush", "sg_mapper"}
  \/ pc = "sg_read" /\ total_updated_count < RECORDS_PER_CHUNK
  \/ pc = "sg_commit" /\ total_updated_count = RECORDS_PER_CHUNK

\* C22: the flush never commits and is undone by the caller's rollback: the
\* flush step leaves the committed rows alone, a full_flush group sync that
\* fails before its first commit fails with the group's committed rows
\* equal to the pre-sync rows, and the rollback that follows makes the
\* session equal to them again.
C22_FlushRolledBackWithGroup ==
  [][/\ pc = "sg_flush" => db' = db
     /\ (full_flush /\ BeforeFirstCommit /\ pc' = "sg_except") =>
          /\ db' = db
          /\ RowsOf(db.rows, Entry.group) = RowsOf(db0.rows, Entry.group)
     /\ pc = "sg_except" => (db' = db /\ sess' = db)]_vars

\* The first record of a full_flush group sync has failed: the session has
\* lost rows of the group that the database still holds.
C22_Witness ==
  /\ pc = "sg_except"
  /\ full_flush
  /\ read_count = 1
  /\ RowsOf(db.rows, Entry.group) = RowsOf(db0.rows, Entry.group)
  /\ RowsOf(db.rows, Entry.group) # {}
  /\ \E r \in RowsOf(db.rows, Entry.group) : r \notin sess.rows

\* The records read from the repo since the last commit of the group sync:
\* those read, less those counted in committed chunks.
ReadSinceCommit == read_count - (total_updated_count - count)

\* C23: in every state of _sync_group, of either feed class, at most
\* RECORDS_PER_CHUNK records were merged into the session since the last
\* commit, however many records the group has; when the number reaches
\* RECORDS_PER_CHUNK the commit is the next statement, and it commits the
\* whole session and restarts the count unless it raises.
C23_UncommittedAtMostChunk ==
  /\ [](InSyncGroup =>
          /\ count <= RECORDS_PER_CHUNK
          /\ ReadSinceCommit <= RECORDS_PER_CHUNK
          /\ (total_updated_count - count) % RECORDS_PER_CHUNK = 0
          /\ count = RECORDS_PER_CHUNK => pc \in {"sg_commit", "sg_except"}
          /\ pc = "sg_commit" => count = RECORDS_PER_CHUNK)
  /\ [][pc = "sg_commit" =>
          \/ db' = sess /\ sess' = sess /\ count' = 0 /\ pc' = "sg_read"
          \/ pc' = "sg_except" /\ db' = db]_vars

\* A group of more records than a chunk holds: the first chunk was
\* committed and the count restarted with the records after it.
C23_Witness ==
  /\ pc = "sg_read"
  /\ total_updated_count > RECORDS_PER_CHUNK
  /\ count = total_updated_count - RECORDS_PER_CHUNK
  /\ count >= 1
  /\ RowsOf(db.rows, Entry.group) # RowsOf(sess.rows, Entry.group)

\* C24: an error at a record (mapping, merging or vulnerability_processing_fn
\* raises) ends the group sync: the next step rolls the session back to the
\* committed state, leaves the record loop with no further record read,
\* counts the group as failed and announces FeedGroupSyncFailed for it
\* without adding a group result; and a sync that returns after such a
\* failure returns status 'failure'.
C24_RecordErrorFailsGroup ==
  /\ [][RaisedAtRecord =>
          /\ sess' = db
          /\ db' = db
          /\ pc' = "loop"
          /\ gi' = gi
          /\ read_count' = 0
          /\ failed_count' = failed_count + 1
          /\ events' = Append(events, Event("FeedGroupSyncFailed", Entry))
          /\ result' = result]_vars
  /\ []((pc = "returned" /\ FailedGroups # {}) =>
          (failed_count > 0 /\ result.status = "failure"))

\* vulnerability_processing_fn raised on a record after the first of a
\* vulnerability group, with changes in the session that are not committed.
C24_Witness ==
  /\ RaisedAtRecord
  /\ feed_name = VulnFeedName
  /\ read_count >= 2
  /\ fn_calls # <<>>
  /\ sess.rows # db.rows

\* The groups of the packages feed for which __group_data_mappers__ has no entry.
UnmappedGroups ==
  IF feed_name = PackagesFeedName THEN metadata_groups \ {"gem", "npm"} ELSE {}

\* C25: a group of the packages feed that is in the metadata and has no
\* mapper entry fails at _load_mapper, as a failure of that group: its sync
\* never reaches the record loop, the session and the database stay as they
\* were whether or not full_flush is set, its rows and last_sync are never
\* changed, no result reports it, and when sync ends it is among the failed
\* groups while every entry of the manifest for this feed was attempted.
C25_MissingMapperFailsGroup ==
  /\ [](\A g \in UnmappedGroups :
          /\ RowsOf(db.rows, g) = RowsOf(db0.rows, g)
          /\ db.last_sync[g] = db0.last_sync[g]
          /\ \A i \in DOMAIN result.groups : result.groups[i].group # g
          /\ (InSyncGroup /\ Entry.group = g) =>
               /\ pc \in {"sg_enter", "sg_flush", "sg_mapper", "sg_except"}
               /\ sess = db
          /\ (pc \in {"returned", "raised"} /\ EntriesOf(g) # {}) =>
               /\ g \in FailedGroups
               /\ \A k \in DOMAIN manifest :
                     IsOwnEntry(manifest[k]) =>
                       EventsFor("FeedGroupSyncStarted", manifest[k].group) # {})
  /\ [][(pc = "sg_mapper" /\ Entry.group \in UnmappedGroups) =>
          (pc' = "sg_except" /\ sess' = sess /\ db' = db)]_vars

\* A full_flush sync of the packages feed returned: group 'pypi', which has
\* rows and no mapper, failed first, and group 'gem' was synced after it.
C25_Witness ==
  /\ pc = "returned"
  /\ feed_name = PackagesFeedName
  /\ full_flush
  /\ "pypi" \in FailedGroups
  /\ RowsOf(db.rows, "pypi") # {}
  /\ \E i \in DOMAIN result.groups :
        result.groups[i].group = "gem" /\ result.groups[i].status = "success"
  /\ \E i \in EventsFor("FeedGroupSyncFailed", "pypi") :
        \E j \in EventsFor("FeedGroupSyncStarted", "gem") : i < j

\* C26: vulnerability_processing_fn works in the transaction of the merge of
\* its record and before its commit: the step that calls it commits nothing
\* and, unless it raises, leaves the record's row and its image matches
\* together in the session; and in every committed state the image matches
\* are those of the committed Vulnerability rows, none without its row and
\* no row without its matches.
C26_MatchesCommittedWithRow ==
  /\ [](db.matches = ImageMatches(images, db.rows))
  /\ [][RecordStep =>
          /\ db' = db
          /\ (fn_calls' # <<>> /\ pc' # "sg_except") =>
               /\ fn_calls'[1] \in sess'.rows
               /\ ImageMatches(images, {fn_calls'[1]}) \subseteq sess'.matches]_vars

\* A chunk that holds a new row and its image match was committed, and a
\* later record of the group failed in vulnerability_processing_fn with its
\* row merged and its match not written: the rollback is due.
C26_Witness ==
  /\ pc = "sg_except"
  /\ fn_calls # <<>>
  /\ total_updated_count >= RECORDS_PER_CHUNK
  /\ \E m \in db.matches : m.vulnerability \notin db0.rows
  /\ fn_calls[1] \in sess.rows
  /\ fn_calls[1] \notin db.rows
  /\ ImageMatches(images, {fn_calls[1]}) \cap sess.matches = {}
  /\ images # {}

\* The groups of the metadata other than the one being synced.
OtherGroups == metadata_groups \ {Entry.group}

\* C27: transactions do not span groups: whenever sync is between groups or
\* the processing of a group begins, the session holds no uncommitted
\* change; so a commit made while a group is processed changes rows and
\* last_sync of that group only, and what a rollback discards are changes
\* to that group only.
C27_NoTransactionSpansGroups ==
  /\ [](pc \in {"loop", "sg_enter"} => sess = db)
  /\ [][InSyncGroup =>
          /\ \A g \in OtherGroups :
                /\ RowsOf(db'.rows, g) = RowsOf(db.rows, g)
                /\ db'.last_sync[g] = db.last_sync[g]
          /\ pc = "sg_except" =>
               \A g \in OtherGroups :
                  /\ RowsOf(sess.rows, g) = RowsOf(db.rows, g)
                  /\ sess.last_sync[g] = db.last_sync[g]]_vars

\* The second group of the manifest begins after the first group failed
\* with its first chunk committed: the rollback left nothing pending.
C27_Witness ==
  /\ pc = "sg_enter"
  /\ gi = 2
  /\ failed_count = 1
  /\ manifest[1].feed = feed_name
  /\ manifest[1].group \in metadata_groups
  /\ RowsOf(db.rows, manifest[1].group) # RowsOf(db0.rows, manifest[1].group)
  /\ sess = db

\* C28: the result of a successful group sync reports as
\* updated_record_count the number of records the repo emitted for the
\* group, match-equivalent records and repeated keys included, and 0 as
\* updated_image_count, whatever vulnerability_processing_fn returned.
C28_ResultCountsEveryRecord ==
  [][(pc = "sg_last_sync" /\ pc' = "loop") =>
       LET r == result'.groups[Len(result'.groups)] IN
       /\ Len(result'.groups) = Len(result.groups) + 1
       /\ r.group = Entry.group
       /\ r.status = "success"
       /\ r.updated_record_count = read_count
       /\ r.updated_image_count = 0]_vars

\* A group sync succeeded while an image was loaded: the repo emitted more
\* records than the group has keys, the function was called and wrote an
\* image match, and the result counts every record and no image.
C28_Witness ==
  /\ pc = "loop"
  /\ images # {}
  /\ result.groups # <<>>
  /\ LET r == result.groups[Len(result.groups)] IN
     /\ r.status = "success"
     /\ r.updated_record_count = MaxRecords
     /\ r.updated_record_count > Cardinality(RowsOf(db.rows, r.group))
     /\ r.updated_image_count = 0
     /\ \E m \in db.matches :
           m.vulnerability.namespace_name = r.group /\ m.vulnerability \notin db0.rows

\* C29: whenever sync has returned a result, the persisted last_update and
\* last_full_sync of the feed are one and the same timestamp, taken at the
\* end of this sync and later than the ones before it, whatever the groups
\* did, full_flush was and the manifest held; and the two are only ever
\* changed together, by one commit that changes nothing else.
C29_ReturnSetsBothTimestamps ==
  /\ [](pc = "returned" =>
          /\ db.last_update = utcnow
          /\ db.last_full_sync = db.last_update
          /\ db.last_update > db0.last_update
          /\ db.last_full_sync > db0.last_full_sync)
  /\ [][(db'.last_update # db.last_update \/ db'.last_full_sync # db.last_full_sync) =>
          /\ db' = [db EXCEPT !.last_update = utcnow, !.last_full_sync = utcnow]
          /\ sess = db
          /\ pc' = "returned"]_vars

\* Sync returned 'failure' with full_flush false: every entry of the
\* manifest was a group of this feed whose sync raised, no group result was
\* appended, and the timestamps were set all the same.
C29_Witness ==
  /\ pc = "returned"
  /\ ~full_flush
  /\ result.status = "failure"
  /\ result.groups = <<>>
  /\ failed_count = MaxManifest
  /\ db.last_update = utcnow
  /\ db.last_full_sync = utcnow
  /\ db0.last_update # utcnow

\* C30: in a vulnerability group sync with full_flush, a record whose key
\* was not among the records read before it finds no existing row, even
\* when a match-equivalent row was there before the flush, and
\* vulnerability_processing_fn is invoked for it, unless mapping the record
\* raised and nothing was merged.
C30_FullFlushProcessesEveryKey ==
  [][(RecordStep /\ full_flush) =>
       LET m == MapRecord(Entry.group, record'[1]) IN
       (\A e \in emitted : e.id # m.id) =>
          \/ existing' = {} /\ fn_calls' = <<m>> /\ m \in sess'.rows
          \/ pc' = "sg_except" /\ fn_calls' = <<>> /\ sess' = sess]_vars

\* With full_flush, the first record of a group is equal to the row of its
\* key from before the sync; the lookup ran on the flushed session and
\* found none, and vulnerability_processing_fn was invoked for the record.
C30_Witness ==
  /\ pc = "sg_read"
  /\ full_flush
  /\ feed_name = VulnFeedName
  /\ read_count = 1
  /\ fn_calls # <<>>
  /\ fn_calls[1] \in RowsOf(db0.rows, Entry.group)
  /\ fn_calls[1] \in RowsOf(db.rows, Entry.group)
  /\ existing = {}
  /\ RowsOf(sess.rows, Entry.group) = {fn_calls[1]}

\* C31: the group-name cache is scoped to its worker. While a worker is
\* inside a vulnerability sync its cache holds the group names of that
\* sync and no other, whatever its previous sync or another worker
\* installed, and outside a sync it is empty; and in every interleaving
\* a step leaves the cache of each worker that did not take it as it was.
C31_CacheScopedToWorker ==
  /\ [](\A w \in DOMAIN worker_pc :
          /\ worker_pc[w] = "sync" => worker_cache[w] = worker_metadata[w]
          /\ worker_pc[w] = "idle" => worker_cache[w] = {})
  /\ [][\A w \in DOMAIN worker_pc :
          (worker_pc'[w] = worker_pc[w] /\ worker_syncs'[w] = worker_syncs[w]) =>
            worker_cache'[w] = worker_cache[w]]_vars

\* Two workers are inside a sync at once with different group names; one of
\* them is in its second sync, and the names of its first sync, which are
\* those the other worker has installed now, are not in its cache.
C31_Witness ==
  /\ worker_pc = [w \in Workers |-> "sync"]
  /\ worker_syncs["worker-1"] = 2
  /\ worker_previous["worker-1"] = {"ubuntu:20.04"}
  /\ worker_cache["worker-1"] = {"debian:10"}
  /\ worker_cache["worker-2"] = {"ubuntu:20.04"}
====
